---- MODULE Spec2Model ----
(***************************************************************************)
(* Model of establishment_of_db.py: the resumable three-stage (SIFT, STE,  *)
(* DWT) hash extraction pipeline of video_retrieval_database_construction, *)
(* its progress file (save_progress / load_progress), the SQLite table     *)
(* RetrievalDatabase with insert_unique_into_database, and the SIGINT      *)
(* handler handle_interrupt.                                               *)
(*                                                                         *)
(* Persistent state: progress_file, db.  Everything else is the memory of  *)
(* one process and is re-initialised by Start.                             *)
(***************************************************************************)
EXTENDS Integers, Sequences, FiniteSets, TLC

(***************************************************************************)
(* Bounds of the model.                                                    *)
(***************************************************************************)
\* number of .mp4 files in the videos directory: 0..MaxVideos
MaxVideos == 2
\* frames per video, and audio windows per video: 0..MaxUnits
MaxUnits == 2
\* rows of a table found in the database file when the script starts
MaxRows == 2
\* width of one hash unit.  The code renders every unit with '08b' after
\* "% 256" and tests the distinct count against 256 = 2^8; the model keeps
\* the three tied together through HashBits and scales the width down.
HashBits == 2

\* 256 in the code (lines 139, 148, 159, 172)
HashSpace == 2 ^ HashBits

SIFT == "SIFT"
STE == "STE"
DWT == "DWT"
Stages == {SIFT, STE, DWT}

(***************************************************************************)
(* The corpus: the ordered listing of the videos directory and what the    *)
(* decoders and feature extractors return for each file.  Video v has      *)
(* frames[v] frame images; every audio track has `windows` energy windows  *)
(* (none, or as many as a video has frames at most), and its STE sequence  *)
(* has one entry per window and so has its DWT sequence.                   *)
(* The extractors are deterministic, so the raw feature values are a       *)
(* function of the corpus: unit u of video v (counting its SIFT, then STE, *)
(* then DWT units) has raw value a * (units of the videos before v) + u.   *)
(* a = 1: all units of the corpus differ until the values wrap modulo the  *)
(* hash space; a = 0: every video repeats the values of the first one.     *)
(***************************************************************************)
RECURSIVE SeqsUpTo(_, _)
SeqsUpTo(S, n) ==
    IF n = 0 THEN {<<>>}
    ELSE LET shorter == SeqsUpTo(S, n - 1)
         IN  shorter \cup {Append(s, x) : s \in {t \in shorter : Len(t) = n - 1}, x \in S}

Corpora ==
    [frames : SeqsUpTo(0..MaxUnits, MaxVideos), windows : {0, MaxUnits}, a : 0..1]

VARIABLES
    corpus,         \* the videos directory (never changes)
    progress_file,  \* contents of progress.json, or NoFile
    db,             \* rows of RetrievalDatabase in id order
    pc,             \* where the process is
    progress,       \* local `progress` (the checkpoint as loaded)
    video_index,    \* local `video_index`
    frame_index,    \* local `frame_index`
    feature_stage,  \* local `feature_stage`
    i,              \* enumerate counter of the video loop
    j,              \* enumerate counter of the unit loop
    frame_dir,      \* video id whose frame directory `frame_dir` names, 0 = unbound
    audio_path,     \* video id whose wav file `audio_path` names, 0 = unbound
    frame_dirs,     \* video ids whose Processed/frames_<name> directory exists
    audio_files,    \* video ids whose <name>.wav file exists
    integrity,      \* what the run reported for check_database_integrity
    run_log         \* history: the units this run has offered to the store, in order

vars == <<corpus, progress_file, db, pc, progress, video_index, frame_index,
          feature_stage, i, j, frame_dir, audio_path, frame_dirs, audio_files,
          integrity, run_log>>

files == <<frame_dirs, audio_files>>
history == <<run_log>>

\* progress.json: absent, holding one JSON object, or holding text that
\* json.load rejects (empty, cut short, or with trailing text)
NoFile == [exists |-> FALSE, parsable |-> FALSE]
FileWith(p) == [exists |-> TRUE, parsable |-> TRUE, data |-> p]
TornFile == [exists |-> TRUE, parsable |-> FALSE]

Checkpoint(v, f, s) == [video_index |-> v, frame_index |-> f, feature_stage |-> s]

DefaultProgress == Checkpoint(0, 0, SIFT)

(***************************************************************************)
(* Corpus accessors.  Video ids are 1-based (video_id = i + 1).            *)
(***************************************************************************)
video_files == [vid \in DOMAIN corpus.frames |-> vid]

NumFrames(vid) == corpus.frames[vid]
NumSte(vid) == corpus.windows
NumDwt(vid) == corpus.windows
NumUnits(vid) == NumFrames(vid) + NumSte(vid) + NumDwt(vid)

RECURSIVE UnitsBefore(_)
UnitsBefore(vid) ==
    IF vid <= 1 THEN 0 ELSE UnitsBefore(vid - 1) + NumUnits(vid - 1)

RawValue(vid, u) == corpus.a * UnitsBefore(vid) + u

\* np.sum(descriptors) of frame p
DescriptorSum(vid, p) == RawValue(vid, p)
\* energy of audio window p
Energy(vid, p) == RawValue(vid, NumFrames(vid) + p)
\* combined DWT coefficient p
Coefficient(vid, p) == RawValue(vid, NumFrames(vid) + NumSte(vid) + p)

(***************************************************************************)
(* format(n, '08b'): binary digits, most significant first, zero-padded on *)
(* the left to the width.                                                  *)
(***************************************************************************)
RECURSIVE Binary(_)
Binary(n) == IF n < 2 THEN <<n>> ELSE Binary(n \div 2) \o <<n % 2>>

RECURSIVE ZeroPad(_, _)
ZeroPad(s, w) == IF Len(s) >= w THEN s ELSE ZeroPad(<<0>> \o s, w)

Format0b(n, w) == ZeroPad(Binary(n), w)

calculate_sift_descriptors(vid, p) == Format0b(DescriptorSum(vid, p) % HashSpace, HashBits)

calculate_ste_hash(vid) ==
    [p \in 1..NumSte(vid) |-> Format0b(Energy(vid, p - 1) % HashSpace, HashBits)]

\* mutant: lines 158-159 without "% 256"
calculate_dwt_hash_unreduced(vid) ==
    [p \in 1..NumDwt(vid) |-> Format0b(Coefficient(vid, p - 1), HashBits)]

calculate_dwt_hash(vid) ==
    [p \in 1..NumDwt(vid) |-> Format0b(Coefficient(vid, p - 1) % HashSpace, HashBits)]

(***************************************************************************)
(* The retrieval store.                                                    *)
(***************************************************************************)
Row(bs, vid, fid, pos) ==
    [ByteSequence |-> bs, VideoID |-> vid, FeatureID |-> fid, PositionID |-> pos]

\* SELECT COUNT(*) FROM RetrievalDatabase WHERE ByteSequence = ?
CountByteSequence(table, bs) ==
    Cardinality({k \in DOMAIN table : table[k].ByteSequence = bs})

\* mutant: the INSERT without the SELECT COUNT(*) test
insert_without_count_test(table, bs, vid, fid, pos) ==
    Append(table, Row(bs, vid, fid, pos))

insert_unique_into_database(table, bs, vid, fid, pos) ==
    IF CountByteSequence(table, bs) = 0
    THEN Append(table, Row(bs, vid, fid, pos))
    ELSE table

\* ''.join(map(str, hash_sequence))
RECURSIVE Join(_)
Join(hash_sequence) ==
    IF hash_sequence = <<>> THEN <<>>
    ELSE Head(hash_sequence) \o Join(Tail(hash_sequence))

update_retrieval_database(table, vid, fid, pos, hash_sequence) ==
    insert_unique_into_database(table, Join(hash_sequence), vid, fid, pos)

\* SQL NULL in the ByteSequence column: equal to no string of bits
NULL == <<-1>>

\* mutant: line 123 with "WHERE ByteSequence IS NULL" alone
check_database_integrity_null_only(table) ==
    LET null_count == Cardinality({k \in DOMAIN table :
                                       table[k].ByteSequence = NULL})
    IN  null_count = 0

\* lines 120-126: COUNT(*) WHERE ByteSequence IS NULL OR ByteSequence = ''
check_database_integrity(table) ==
    LET null_count == Cardinality({k \in DOMAIN table :
                                       \/ table[k].ByteSequence = NULL
                                       \/ table[k].ByteSequence = <<>>})
    IN  null_count = 0

\* SELECT COUNT(DISTINCT ByteSequence) FROM RetrievalDatabase
DistinctCount(table) == Cardinality({table[k].ByteSequence : k \in DOMAIN table})

\* mutant: "unique_count > 256" for "unique_count == 256"
check_more_than_all_generated(table) == DistinctCount(table) > HashSpace

check_all_hash_sequences_generated(table) == DistinctCount(table) = HashSpace

(***************************************************************************)
(* The process.                                                            *)
(***************************************************************************)
Stopped == {"idle", "done", "interrupted", "crashed", "load_error"}

Running == {"loop_head", "extract", "sift_unit", "sift_save", "sift_assign",
            "sift_stage", "audio", "ste_unit", "ste_save", "ste_stage",
            "dwt_unit", "dwt_save", "dwt_stage", "append", "final"}

load_progress == progress_file.data

save_progress(p) == progress_file' = FileWith(p)

\* The memory of a process that does not run: the locals hold nothing.
NoProcess ==
    /\ progress = DefaultProgress
    /\ video_index = 0
    /\ frame_index = 0
    /\ feature_stage = SIFT
    /\ i = 0
    /\ j = 0
    /\ frame_dir = 0
    /\ audio_path = 0
    /\ run_log = <<>>

\* One unit of work: a frame, an STE window or a DWT coefficient of a video
Unit(vid, fid, pos) == <<vid, fid, pos>>

\* The row a unit's INSERT wrote is in the table
HasRowOf(table, vid, fid, pos) ==
    \E k \in DOMAIN table : /\ table[k].VideoID = vid
                             /\ table[k].FeatureID = fid
                             /\ table[k].PositionID = pos

\* A unit offered to the store, and whether the table already held the row
\* an earlier offer of this unit inserted
Offer(table, vid, fid, pos) ==
    [unit |-> Unit(vid, fid, pos), again |-> HasRowOf(table, vid, fid, pos)]

\* The process ends: its memory is gone.
ProcessExit ==
    /\ progress' = DefaultProgress
    /\ video_index' = 0
    /\ frame_index' = 0
    /\ feature_stage' = SIFT
    /\ i' = 0
    /\ j' = 0
    /\ frame_dir' = 0
    /\ audio_path' = 0
    /\ run_log' = <<>>

Init ==
    /\ corpus \in Corpora
    /\ progress_file = NoFile
    /\ db = <<>>
    /\ pc = "idle"
    /\ NoProcess
    /\ frame_dirs = {}
    /\ audio_files = {}
    /\ integrity = "unchecked"

\* mutant: load_progress returning None for a file json.load rejects
Start_CorruptIsFresh ==
    /\ pc \in Stopped
    /\ progress' = IF progress_file.parsable THEN load_progress ELSE DefaultProgress
    /\ video_index' = progress'.video_index
    /\ frame_index' = progress'.frame_index
    /\ feature_stage' = progress'.feature_stage
    /\ i' = 0
    /\ j' = 0
    /\ frame_dir' = 0
    /\ audio_path' = 0
    /\ pc' = "loop_head"
    /\ integrity' = "unchecked"
    /\ UNCHANGED <<corpus, progress_file, db, files, history>>

\* lines 175-199: a (re)start of the script; json.load (line 22) raises
\* JSONDecodeError on a file it cannot parse, and nothing catches it
Start ==
    /\ pc \in Stopped
    /\ IF progress_file.exists /\ ~progress_file.parsable
       THEN /\ pc' = "load_error"
            /\ UNCHANGED <<progress, video_index, frame_index, feature_stage,
                           i, j, frame_dir, audio_path>>
       ELSE /\ progress' = IF progress_file.exists THEN load_progress
                                                   ELSE DefaultProgress
            /\ video_index' = progress'.video_index
            /\ frame_index' = progress'.frame_index
            /\ feature_stage' = progress'.feature_stage
            /\ i' = 0
            /\ j' = 0
            /\ frame_dir' = 0
            /\ audio_path' = 0
            /\ pc' = "loop_head"
    /\ integrity' = "unchecked"
    /\ UNCHANGED <<corpus, progress_file, db, files, history>>

\* lines 202-205: next element of enumerate(video_files), coverage check
LoopHead ==
    /\ pc = "loop_head"
    /\ pc' = IF i < Len(video_files) /\ ~check_all_hash_sequences_generated(db)
             THEN "extract"
             ELSE "final"
    /\ UNCHANGED <<files, integrity, history>>
    /\ UNCHANGED <<corpus, progress_file, db, progress, video_index, frame_index,
                   feature_stage, i, j, frame_dir, audio_path>>

\* lines 207-218: extract_frames, then the SIFT test and frames[frame_index:]
ExtractFrames ==
    /\ pc = "extract"
    /\ frame_dir' = i + 1
    /\ IF feature_stage = SIFT
       THEN j' = frame_index /\ pc' = "sift_unit"
       ELSE j' = j /\ pc' = "audio"
    /\ frame_dirs' = frame_dirs \cup {i + 1}
    /\ UNCHANGED <<audio_files, integrity, history>>
    /\ UNCHANGED <<corpus, progress_file, db, progress, video_index, frame_index,
                   feature_stage, i, audio_path>>

\* lines 218-220
SiftUnit ==
    /\ pc = "sift_unit"
    /\ j < NumFrames(i + 1)
    /\ db' = update_retrieval_database(db, i + 1, SIFT, j,
                                       <<calculate_sift_descriptors(i + 1, j)>>)
    /\ pc' = "sift_save"
    /\ run_log' = Append(run_log, Offer(db, i + 1, SIFT, j))
    /\ UNCHANGED <<files, integrity>>
    /\ UNCHANGED <<corpus, progress_file, progress, video_index, frame_index,
                   feature_stage, i, j, frame_dir, audio_path>>

\* line 222
SiftSave ==
    /\ pc = "sift_save"
    /\ save_progress(Checkpoint(i, j + 1, SIFT))
    /\ pc' = "sift_assign"
    /\ UNCHANGED <<files, integrity, history>>
    /\ UNCHANGED <<corpus, db, progress, video_index, frame_index, feature_stage,
                   i, j, frame_dir, audio_path>>

\* line 223, and the loop's next j
SiftAssign ==
    /\ pc = "sift_assign"
    /\ frame_index' = j + 1
    /\ j' = j + 1
    /\ pc' = "sift_unit"
    /\ UNCHANGED <<files, integrity, history>>
    /\ UNCHANGED <<corpus, progress_file, db, progress, video_index, feature_stage,
                   i, frame_dir, audio_path>>

\* mutant: the loop of line 218 left one frame early
SiftDone_OneEarly ==
    /\ pc = "sift_unit"
    /\ j >= NumFrames(i + 1) - 1
    /\ save_progress(Checkpoint(i, 0, STE))
    /\ pc' = "sift_stage"
    /\ UNCHANGED <<files, integrity, history>>
    /\ UNCHANGED <<corpus, db, progress, video_index, frame_index, feature_stage,
                   i, j, frame_dir, audio_path>>

\* line 218 exhausted, line 229
SiftDone ==
    /\ pc = "sift_unit"
    /\ j >= NumFrames(i + 1)
    /\ save_progress(Checkpoint(i, 0, STE))
    /\ pc' = "sift_stage"
    /\ UNCHANGED <<files, integrity, history>>
    /\ UNCHANGED <<corpus, db, progress, video_index, frame_index, feature_stage,
                   i, j, frame_dir, audio_path>>

\* line 231
SiftStage ==
    /\ pc = "sift_stage"
    /\ feature_stage' = STE
    /\ pc' = "audio"
    /\ UNCHANGED <<files, integrity, history>>
    /\ UNCHANGED <<corpus, progress_file, db, progress, video_index, frame_index,
                   i, j, frame_dir, audio_path>>

\* lines 234-244 (and 259-263 when the STE block is skipped)
ExtractAudio ==
    /\ pc = "audio"
    /\ audio_path' = i + 1
    /\ IF feature_stage = STE
       THEN j' = 0 /\ pc' = "ste_unit"
       ELSE IF feature_stage = DWT
            THEN j' = 0 /\ pc' = "dwt_unit"
            ELSE j' = j /\ pc' = "append"
    /\ audio_files' = audio_files \cup {i + 1}
    /\ UNCHANGED <<frame_dirs, integrity, history>>
    /\ UNCHANGED <<corpus, progress_file, db, progress, video_index, frame_index,
                   feature_stage, i, frame_dir>>

\* lines 244-245
SteUnit ==
    /\ pc = "ste_unit"
    /\ j < Len(calculate_ste_hash(i + 1))
    /\ db' = update_retrieval_database(db, i + 1, STE, j,
                                       <<calculate_ste_hash(i + 1)[j + 1]>>)
    /\ pc' = "ste_save"
    /\ run_log' = Append(run_log, Offer(db, i + 1, STE, j))
    /\ UNCHANGED <<files, integrity>>
    /\ UNCHANGED <<corpus, progress_file, progress, video_index, frame_index,
                   feature_stage, i, j, frame_dir, audio_path>>

\* line 247, and the loop's next j
SteSave ==
    /\ pc = "ste_save"
    /\ save_progress(Checkpoint(i, j + 1, STE))
    /\ j' = j + 1
    /\ pc' = "ste_unit"
    /\ UNCHANGED <<files, integrity, history>>
    /\ UNCHANGED <<corpus, db, progress, video_index, frame_index, feature_stage,
                   i, frame_dir, audio_path>>

\* line 244 exhausted, line 252
SteDone ==
    /\ pc = "ste_unit"
    /\ j >= Len(calculate_ste_hash(i + 1))
    /\ save_progress(Checkpoint(i, 0, DWT))
    /\ pc' = "ste_stage"
    /\ UNCHANGED <<files, integrity, history>>
    /\ UNCHANGED <<corpus, db, progress, video_index, frame_index, feature_stage,
                   i, j, frame_dir, audio_path>>

\* lines 254-263
SteStage ==
    /\ pc = "ste_stage"
    /\ feature_stage' = DWT
    /\ j' = 0
    /\ pc' = "dwt_unit"
    /\ UNCHANGED <<files, integrity, history>>
    /\ UNCHANGED <<corpus, progress_file, db, progress, video_index, frame_index,
                   i, frame_dir, audio_path>>

\* lines 263-264
DwtUnit ==
    /\ pc = "dwt_unit"
    /\ j < Len(calculate_dwt_hash(i + 1))
    /\ db' = update_retrieval_database(db, i + 1, DWT, j,
                                       <<calculate_dwt_hash(i + 1)[j + 1]>>)
    /\ pc' = "dwt_save"
    /\ run_log' = Append(run_log, Offer(db, i + 1, DWT, j))
    /\ UNCHANGED <<files, integrity>>
    /\ UNCHANGED <<corpus, progress_file, progress, video_index, frame_index,
                   feature_stage, i, j, frame_dir, audio_path>>

\* line 266, and the loop's next j
DwtSave ==
    /\ pc = "dwt_save"
    /\ save_progress(Checkpoint(i, j + 1, DWT))
    /\ j' = j + 1
    /\ pc' = "dwt_unit"
    /\ UNCHANGED <<files, integrity, history>>
    /\ UNCHANGED <<corpus, db, progress, video_index, frame_index, feature_stage,
                   i, frame_dir, audio_path>>

\* mutant: line 271 saving "video_index": i for i + 1
DwtDone_SameVideo ==
    /\ pc = "dwt_unit"
    /\ j >= Len(calculate_dwt_hash(i + 1))
    /\ save_progress(Checkpoint(i, 0, SIFT))
    /\ pc' = "dwt_stage"
    /\ UNCHANGED <<files, integrity, history>>
    /\ UNCHANGED <<corpus, db, progress, video_index, frame_index, feature_stage,
                   i, j, frame_dir, audio_path>>

\* line 263 exhausted, line 271
DwtDone ==
    /\ pc = "dwt_unit"
    /\ j >= Len(calculate_dwt_hash(i + 1))
    /\ save_progress(Checkpoint(i + 1, 0, SIFT))
    /\ pc' = "dwt_stage"
    /\ UNCHANGED <<files, integrity, history>>
    /\ UNCHANGED <<corpus, db, progress, video_index, frame_index, feature_stage,
                   i, j, frame_dir, audio_path>>

\* line 273
DwtStage ==
    /\ pc = "dwt_stage"
    /\ feature_stage' = SIFT
    /\ pc' = "append"
    /\ UNCHANGED <<files, integrity, history>>
    /\ UNCHANGED <<corpus, progress_file, db, progress, video_index, frame_index,
                   i, j, frame_dir, audio_path>>

\* lines 276-277 and back to line 202
NextVideo ==
    /\ pc = "append"
    /\ i' = i + 1
    /\ pc' = "loop_head"
    /\ UNCHANGED <<files, integrity, history>>
    /\ UNCHANGED <<corpus, progress_file, db, progress, video_index, frame_index,
                   feature_stage, j, frame_dir, audio_path>>

\* lines 279-293: the integrity report, then delete_directory(frame_dir)
\* and delete_files([audio_path]); line 289 raises NameError when no
\* iteration of the loop reached line 210
Finish ==
    /\ pc = "final"
    /\ integrity' = IF check_database_integrity(db) THEN "info" ELSE "warning"
    /\ IF frame_dir = 0
       THEN /\ pc' = "crashed"
            /\ UNCHANGED files
       ELSE /\ pc' = "done"
            /\ frame_dirs' = frame_dirs \ {frame_dir}
            /\ audio_files' = audio_files \ {audio_path}
    /\ ProcessExit
    /\ UNCHANGED <<corpus, progress_file, db>>

\* lines 194-197: SIGINT delivered while the handler is installed
handle_interrupt ==
    /\ pc \in Running
    /\ save_progress(Checkpoint(video_index, frame_index, feature_stage))
    /\ pc' = "interrupted"
    /\ ProcessExit
    /\ UNCHANGED <<files, integrity>>
    /\ UNCHANGED <<corpus, db>>

(***************************************************************************)
(* save_progress is open(PROGRESS_FILE, 'w'), which empties the file, then *)
(* json.dump, which hands the text to the file object token by token, then *)
(* the close that writes the buffered text at offset 0.                    *)
(***************************************************************************)
\* The record the main loop's next step saves (lines 222, 229, 247, 252,
\* 266, 271)
SaveInProgress ==
    pc \in {"sift_save", "ste_save", "dwt_save"}
    \/ (pc = "sift_unit" /\ j >= NumFrames(i + 1))
    \/ (pc = "ste_unit" /\ j >= Len(calculate_ste_hash(i + 1)))
    \/ (pc = "dwt_unit" /\ j >= Len(calculate_dwt_hash(i + 1)))

PendingSave ==
    CASE pc = "sift_save" -> Checkpoint(i, j + 1, SIFT)
      [] pc = "sift_unit" -> Checkpoint(i, 0, STE)
      [] pc = "ste_save"  -> Checkpoint(i, j + 1, STE)
      [] pc = "ste_unit"  -> Checkpoint(i, 0, DWT)
      [] pc = "dwt_save"  -> Checkpoint(i, j + 1, DWT)
      [] pc = "dwt_unit"  -> Checkpoint(i + 1, 0, SIFT)

\* Characters json.dump writes for a value
RECURSIVE DecimalWidth(_)
DecimalWidth(n) == IF n < 10 THEN 1 ELSE 1 + DecimalWidth(n \div 10)

StageWidth(s) == IF s = SIFT THEN 4 ELSE 3

JsonWidth(p) ==
    DecimalWidth(p.video_index) + DecimalWidth(p.frame_index)
    + StageWidth(p.feature_stage)

\* SIGINT inside the main loop's save_progress: the handler empties the
\* file and writes its record h whole; exit(1) then unwinds the main
\* loop's "with", whose close writes the tokens of m buffered so far over
\* the beginning of h.  The file is m's first fields followed by h's last
\* ones when the fields written have h's widths, and text json.load
\* rejects when they do not.
InterruptedSave(m, h) ==
    LET sameV == DecimalWidth(m.video_index) = DecimalWidth(h.video_index)
        sameF == DecimalWidth(m.frame_index) = DecimalWidth(h.frame_index)
        sameS == StageWidth(m.feature_stage) = StageWidth(h.feature_stage)
    IN  {FileWith(h)}
        \cup {IF sameV
               THEN FileWith(Checkpoint(m.video_index, h.frame_index, h.feature_stage))
               ELSE TornFile}
        \cup {IF sameV /\ sameF
               THEN FileWith(Checkpoint(m.video_index, m.frame_index, h.feature_stage))
               ELSE TornFile}
        \cup {IF sameV /\ sameF /\ sameS THEN FileWith(m) ELSE TornFile}
        \cup {IF JsonWidth(m) >= JsonWidth(h) THEN FileWith(m) ELSE TornFile}

\* lines 15-17 interrupted by lines 194-197
InterruptInSave ==
    /\ pc \in Running
    /\ SaveInProgress
    /\ progress_file' \in InterruptedSave(PendingSave,
                             Checkpoint(video_index, frame_index, feature_stage))
    /\ pc' = "interrupted"
    /\ ProcessExit
    /\ UNCHANGED <<corpus, db, files, integrity>>

\* lines 15-17: the process is killed between the open and the close
CrashInSave ==
    /\ pc \in Running
    /\ SaveInProgress
    /\ progress_file' = TornFile
    /\ pc' = "crashed"
    /\ ProcessExit
    /\ UNCHANGED <<corpus, db, files, integrity>>

\* The process dies without running the handler: an exception raised by a
\* decoder, an extractor, the store or the progress file is caught nowhere
\* (lines 202-290), and the process can be killed.
Crash ==
    /\ pc \in Running
    /\ pc' = "crashed"
    /\ ProcessExit
    /\ UNCHANGED <<files, integrity>>
    /\ UNCHANGED <<corpus, progress_file, db>>

Step ==
    \/ LoopHead
    \/ ExtractFrames
    \/ SiftUnit
    \/ SiftSave
    \/ SiftAssign
    \/ SiftDone
    \/ SiftStage
    \/ ExtractAudio
    \/ SteUnit
    \/ SteSave
    \/ SteDone
    \/ SteStage
    \/ DwtUnit
    \/ DwtSave
    \/ DwtDone
    \/ DwtStage
    \/ NextVideo
    \/ Finish

Next ==
    \/ Start
    \/ Step
    \/ handle_interrupt
    \/ InterruptInSave
    \/ Crash
    \/ CrashInSave

Spec == Init /\ [][Next]_vars

(***************************************************************************)
(* Runs that end only by returning or by SIGINT, and restarts.             *)
(***************************************************************************)
NextSigint ==
    \/ Start
    \/ Step
    \/ handle_interrupt
    \/ InterruptInSave

SpecSigint == Init /\ [][NextSigint]_vars

(***************************************************************************)
(* One script run from an absent progress file and an empty table, with no *)
(* signal and no failure.                                                  *)
(***************************************************************************)
StartFresh ==
    /\ pc = "idle"
    /\ Start

NextFresh ==
    \/ StartFresh
    \/ Step

SpecFresh == Init /\ [][NextFresh]_vars

(***************************************************************************)
(* A run over an empty listing on a database file that already exists:     *)
(* create_database (lines 87-104) keeps whatever table the file holds, and *)
(* the run reports on it at lines 284-287.                                 *)
(***************************************************************************)
StoredByteSequences == {NULL, <<>>, Format0b(0, HashBits), Format0b(1, HashBits)}

StoredRows == {Row(bs, 1, fid, 0) : bs \in StoredByteSequences, fid \in Stages}

InitIntegrity ==
    /\ corpus = [frames |-> <<>>, windows |-> 0, a |-> 0]
    /\ progress_file = NoFile
    /\ db \in SeqsUpTo(StoredRows, MaxRows)
    /\ pc = "idle"
    /\ NoProcess
    /\ frame_dirs = {}
    /\ audio_files = {}
    /\ integrity = "unchecked"

NextIntegrity ==
    \/ StartFresh
    \/ LoopHead
    \/ Finish

SpecIntegrity == InitIntegrity /\ [][NextIntegrity]_vars

(***************************************************************************)
(* The store an uninterrupted run from scratch ends with, computed as the  *)
(* loop of lines 202-277 computes it: frame_index is carried from one      *)
(* video to the next, the STE and DWT loops start at 0.                    *)
(***************************************************************************)
RECURSIVE OfferFrom(_, _, _, _, _)
OfferFrom(table, vid, fid, hashes, from) ==
    IF from >= Len(hashes) THEN table
    ELSE OfferFrom(update_retrieval_database(table, vid, fid, from, <<hashes[from + 1]>>),
                   vid, fid, hashes, from + 1)

SiftHashes(vid) == [p \in 1..NumFrames(vid) |-> calculate_sift_descriptors(vid, p - 1)]

RECURSIVE UninterruptedRun(_, _, _)
UninterruptedRun(table, iv, fi) ==
    IF iv >= Len(video_files) \/ check_all_hash_sequences_generated(table)
    THEN table
    ELSE LET vid == iv + 1
             t1 == OfferFrom(table, vid, SIFT, SiftHashes(vid), fi)
             fi1 == IF fi < NumFrames(vid) THEN NumFrames(vid) ELSE fi
             t2 == OfferFrom(t1, vid, STE, calculate_ste_hash(vid), 0)
             t3 == OfferFrom(t2, vid, DWT, calculate_dwt_hash(vid), 0)
         IN  UninterruptedRun(t3, iv + 1, fi1)

UninterruptedStore == UninterruptedRun(<<>>, 0, 0)

\* the store as a set of records (order of insertion aside)
Records(table) == {table[k] : k \in DOMAIN table}

\* UninterruptedStore is what the stepwise run of SpecFresh ends with
FreshRunEndsWithUninterruptedStore == pc = "final" => db = UninterruptedStore

\* the stage whose unit loop the process is in
StageAt(p) ==
    IF p \in {"sift_unit", "sift_save", "sift_assign"} THEN SIFT
    ELSE IF p \in {"ste_unit", "ste_save"} THEN STE
    ELSE DWT

StageRank(s) == IF s = SIFT THEN 0 ELSE IF s = STE THEN 1 ELSE 2

\* what load() of the spec returns for the progress file
Persisted == IF progress_file.parsable THEN progress_file.data ELSE DefaultProgress

(***************************************************************************)
(* C1. Resumption idempotence: whenever a run (the first one, or one       *)
(* restarted from the persisted checkpoint after an interruption) has      *)
(* finished its video loop, the store holds the same set of records as a   *)
(* single uninterrupted run over the same corpus ends with.                *)
(***************************************************************************)
C1_ResumptionIdempotence ==
    pc = "final" => Records(db) = Records(UninterruptedStore)

(***************************************************************************)
(* C2. A run started from a checkpoint with video_index v does nothing for *)
(* a video below v: the process is never extracting frames, computing or   *)
(* inserting a unit or saving a checkpoint for a video i < v.              *)
(***************************************************************************)
C2_SkipsVideosBelowCheckpoint ==
    pc \in Running \ {"loop_head", "final"} => i >= video_index

(***************************************************************************)
(* C3. In a run started from checkpoint {v, k, S}, for video v no unit of  *)
(* a stage preceding S is computed, and no unit of stage S below position  *)
(* k is computed.                                                          *)
(***************************************************************************)
C3_ResumesAtCheckpointedUnit ==
    (pc \in {"sift_save", "ste_save", "dwt_save"} /\ i = progress.video_index)
        => /\ StageRank(StageAt(pc)) >= StageRank(progress.feature_stage)
           /\ StageAt(pc) = progress.feature_stage => j >= progress.frame_index

(***************************************************************************)
(* C4. An interrupt delivered while the process is at the head of a unit   *)
(* loop, with j units of the stage completed for video i, persists         *)
(* {video_index: i, frame_index: j, feature_stage: that stage}.            *)
(***************************************************************************)
C4_InterruptSavesCurrentPosition ==
    [][(pc \in {"sift_unit", "ste_unit", "dwt_unit"} /\ pc' = "interrupted")
          => progress_file' = FileWith(Checkpoint(i, j, StageAt(pc)))]_vars

(***************************************************************************)
(* C5. Dedup invariant: the table never holds two rows with the same       *)
(* ByteSequence; no step changes or removes a row; a row is added only for *)
(* a ByteSequence that was absent, so offering a present value leaves the  *)
(* distinct count and the first inserter's row as they were.               *)
(***************************************************************************)
NoDuplicateByteSequence == \A k \in DOMAIN db : CountByteSequence(db, db[k].ByteSequence) = 1

FirstInsertKept ==
    \/ db' = db
    \/ /\ Len(db') = Len(db) + 1
       /\ SubSeq(db', 1, Len(db)) = db
       /\ CountByteSequence(db, db'[Len(db')].ByteSequence) = 0

C5_DedupInvariant == []NoDuplicateByteSequence /\ [][FirstInsertKept]_vars

\* a unit was offered whose value an earlier unit owns: the row is the earlier one's
C5_Witness ==
    /\ pc \in {"sift_save", "ste_save", "dwt_save"}
    /\ \E k \in DOMAIN db :
          /\ db[k].ByteSequence =
                (IF pc = "sift_save" THEN calculate_sift_descriptors(i + 1, j)
                 ELSE IF pc = "ste_save" THEN calculate_ste_hash(i + 1)[j + 1]
                 ELSE calculate_dwt_hash(i + 1)[j + 1])
          /\ db[k].VideoID # i + 1

(***************************************************************************)
(* C6. Coverage termination: in no run, first or resumed, is the process   *)
(* about to extract a video's frames while the store holds the full hash   *)
(* space (256 distinct values in the code).                                *)
(***************************************************************************)
C6_CoverageTermination ==
    pc = "extract" => DistinctCount(db) # HashSpace

\* the loop was left by the break with videos remaining
C6_Witness ==
    /\ pc = "final"
    /\ i < Len(video_files)
    /\ DistinctCount(db) = HashSpace
    /\ progress_file.parsable

(***************************************************************************)
(* C7. A fresh uninterrupted run over a corpus whose hash values are all   *)
(* distinct, and that does not reach coverage, ends with one row per unit  *)
(* of every video and stage.                                               *)
(***************************************************************************)
AllUnits ==
    {<<vid, SIFT, p>> : vid \in DOMAIN video_files, p \in 0..MaxUnits} \cup
    {<<vid, STE, p>> : vid \in DOMAIN video_files, p \in 0..MaxUnits} \cup
    {<<vid, DWT, p>> : vid \in DOMAIN video_files, p \in 0..MaxUnits}

UnitExists(u) ==
    u[3] < (IF u[2] = SIFT THEN NumFrames(u[1])
            ELSE IF u[2] = STE THEN NumSte(u[1]) ELSE NumDwt(u[1]))

CorpusUnits == {u \in AllUnits : UnitExists(u)}

HashOf(u) ==
    IF u[2] = SIFT THEN calculate_sift_descriptors(u[1], u[3])
    ELSE IF u[2] = STE THEN calculate_ste_hash(u[1])[u[3] + 1]
    ELSE calculate_dwt_hash(u[1])[u[3] + 1]

AllHashesDistinct == \A u1, u2 \in CorpusUnits : HashOf(u1) = HashOf(u2) => u1 = u2

C7_OneRecordPerUnit ==
    (pc = "final" /\ AllHashesDistinct /\ Cardinality(CorpusUnits) < HashSpace)
        => Len(db) = Cardinality(CorpusUnits)

(***************************************************************************)
(* C8. When video i has finished its DWT stage the persisted checkpoint is *)
(* {i+1, 0, SIFT}, and when a run has gone through all n videos it is      *)
(* {n, 0, SIFT}.                                                           *)
(***************************************************************************)
C8_VideoDoneCheckpoint ==
    /\ pc \in {"dwt_stage", "append"}
          => progress_file = FileWith(Checkpoint(i + 1, 0, SIFT))
    /\ (pc = "final" /\ i = Len(video_files))
          => Persisted = Checkpoint(Len(video_files), 0, SIFT)

C8_Witness ==
    /\ pc = "final"
    /\ i = Len(video_files)
    /\ i = MaxVideos
    /\ progress_file = FileWith(Checkpoint(MaxVideos, 0, SIFT))

(***************************************************************************)
(* C9. Checkpoint monotonicity: a save that follows a save for the same    *)
(* (video_index, feature_stage) never writes a smaller frame_index.        *)
(***************************************************************************)
C9_FrameIndexMonotone ==
    [][(/\ progress_file.parsable
        /\ progress_file'.parsable
        /\ progress_file'.data.video_index = progress_file.data.video_index
        /\ progress_file'.data.feature_stage = progress_file.data.feature_stage)
          => progress_file'.data.frame_index >= progress_file.data.frame_index]_vars

(***************************************************************************)
(* C10. Every stage or video transition resets frame_index to 0: a save    *)
(* whose stage or video differs from the persisted checkpoint writes       *)
(* frame_index 0, and when the SIFT stage of a further video begins the    *)
(* first unit selected is unit 0 (the working frame_index is 0).           *)
(***************************************************************************)
C10_TransitionResetsFrameIndex ==
    [][/\ (/\ progress_file.parsable
           /\ progress_file'.parsable
           /\ \/ progress_file'.data.video_index # progress_file.data.video_index
              \/ progress_file'.data.feature_stage # progress_file.data.feature_stage)
             => progress_file'.data.frame_index = 0
       /\ (pc = "extract" /\ pc' = "sift_unit" /\ i > 0)
             => (frame_index = 0 /\ j' = 0)]_vars

(***************************************************************************)
(* C11. Per-video cleanup: when the frame extraction of a video is about   *)
(* to begin, no frame directory and no audio file of an earlier video of   *)
(* the listing exists; while a run is under way the artifacts of at most   *)
(* one video exist; and no artifact is deleted while the process is inside *)
(* a unit loop.                                                            *)
(***************************************************************************)
Artifacts == frame_dirs \cup audio_files

InUnitLoop == pc \in {"sift_unit", "sift_save", "sift_assign", "ste_unit",
                      "ste_save", "dwt_unit", "dwt_save"}

C11_PerVideoCleanup ==
    /\ [](pc = "extract" => Artifacts \cap (1..i) = {})
    /\ [](pc \in Running => Cardinality(Artifacts) <= 1)
    /\ [][~(Artifacts \subseteq Artifacts') => ~InUnitLoop]_vars

(***************************************************************************)
(* C12. The save is atomic with respect to interruption: whenever the      *)
(* progress file exists its text is one whole record, the previous one or  *)
(* the new one, never text that cannot be parsed.                          *)
(***************************************************************************)
C12_SaveAtomic ==
    progress_file.exists => progress_file.parsable

(***************************************************************************)
(* C13. Bounded replay: a run offers again at most one unit whose row an   *)
(* earlier run had already inserted; the byte sequence of every unit       *)
(* offered is in the store; and a run resumed from a checkpoint that went  *)
(* through the whole listing has skipped no unit: the byte sequence of     *)
(* every unit of the corpus is in the store.                               *)
(***************************************************************************)
ByteSequences(table) == {table[k].ByteSequence : k \in DOMAIN table}

Replayed == {k \in DOMAIN run_log : run_log[k].again}

C13_BoundedReplay ==
    /\ Cardinality(Replayed) <= 1
    /\ \A k \in DOMAIN run_log : HashOf(run_log[k].unit) \in ByteSequences(db)
    /\ (pc = "final" /\ i = Len(video_files) /\ progress # DefaultProgress)
          => \A u \in CorpusUnits : HashOf(u) \in ByteSequences(db)

(***************************************************************************)
(* C14. A checkpoint that cannot be parsed is not taken for a fresh start: *)
(* while the progress file holds text json.load rejects no process is past *)
(* the load and no unit has been offered, and a start on such a file ends  *)
(* at the load with the error, the store and the file untouched.           *)
(***************************************************************************)
CheckpointCorrupt == progress_file.exists /\ ~progress_file.parsable

C14_CorruptCheckpointSurfaced ==
    /\ [](CheckpointCorrupt => (pc \in Stopped /\ run_log = <<>>))
    /\ [][(CheckpointCorrupt /\ pc' # pc)
             => (pc' = "load_error" /\ db' = db /\ progress_file' = progress_file)]_vars

\* a start was attempted on a corrupt checkpoint
C14_Witness ==
    /\ CheckpointCorrupt
    /\ pc = "load_error"
    /\ db # <<>>

(***************************************************************************)
(* C15. The integrity report of a run is the warning exactly when at least *)
(* one stored row has a null or an empty ByteSequence, for every content   *)
(* of the table.                                                           *)
(***************************************************************************)
C15_IntegrityIffNoEmptySequence ==
    integrity # "unchecked"
       => (integrity = "warning"
             <=> \E k \in DOMAIN db : \/ db[k].ByteSequence = NULL
                                      \/ db[k].ByteSequence = <<>>)

\* a table whose only defect is an empty string was reported
C15_Witness ==
    /\ integrity = "warning"
    /\ \E k \in DOMAIN db : db[k].ByteSequence = <<>>
    /\ \A k \in DOMAIN db : db[k].ByteSequence # NULL

(***************************************************************************)
(* C16. The checkpoint is never ahead of the work done: when the progress  *)
(* file holds {v, f, S}, every unit of video v in stage S at a position    *)
(* below f and every unit of video v in a stage before S has been offered  *)
(* to the store, so its byte sequence is in the store.                     *)
(***************************************************************************)
BehindCheckpoint(p) ==
    {u \in CorpusUnits :
        /\ u[1] = p.video_index + 1
        /\ \/ StageRank(u[2]) < StageRank(p.feature_stage)
           \/ (u[2] = p.feature_stage /\ u[3] < p.frame_index)}

C16_CheckpointNotAhead ==
    progress_file.parsable
       => \A u \in BehindCheckpoint(progress_file.data) :
              HashOf(u) \in ByteSequences(db)

(***************************************************************************)
(* C17. Strict sequencing within a run: the units a run offers follow the  *)
(* order of the listing, then SIFT, STE, DWT, then position; inside a      *)
(* stage the positions are consecutive; and a stage of a video is left for *)
(* a later stage or a later video only after its last unit.                *)
(***************************************************************************)
UnitBefore(u, w) ==
    \/ u[1] < w[1]
    \/ (u[1] = w[1] /\ StageRank(u[2]) < StageRank(w[2]))
    \/ (u[1] = w[1] /\ u[2] = w[2] /\ u[3] < w[3])

LastOfStage(u) == ~UnitExists(<<u[1], u[2], u[3] + 1>>)

C17_StrictSequencing ==
    \A k \in 1..(Len(run_log) - 1) :
        LET u == run_log[k].unit
            w == run_log[k + 1].unit
        IN  /\ UnitBefore(u, w)
            /\ IF u[1] = w[1] /\ u[2] = w[2]
               THEN w[3] = u[3] + 1
               ELSE LastOfStage(u)

\* a run has offered two units of one stage and then a unit of the next
C17_Witness ==
    \E k \in 2..(Len(run_log) - 1) :
        /\ run_log[k - 1].unit[2] = run_log[k].unit[2]
        /\ run_log[k].unit[2] # run_log[k + 1].unit[2]
        /\ run_log[k].unit[1] = run_log[k + 1].unit[1]

(***************************************************************************)
(* C18. Over the lifetime of the progress file the persisted video_index   *)
(* never decreases, whoever writes the record: the main loop, the          *)
(* interrupt handler or a restarted run.                                   *)
(***************************************************************************)
C18_VideoIndexMonotone ==
    [][(progress_file.parsable /\ progress_file'.parsable)
          => progress_file'.data.video_index >= progress_file.data.video_index]_vars

(***************************************************************************)
(* C19. A run in which no video is processed (empty listing, or coverage   *)
(* found at the first check) ends normally: from the end of the loop with  *)
(* no frame directory bound, the run returns, deletes no artifact and      *)
(* leaves the store and the checkpoint as they are.                        *)
(***************************************************************************)
C19_EmptyRunEndsNormally ==
    [][(pc = "final" /\ frame_dir = 0)
          => /\ pc' = "done"
             /\ db' = db
             /\ progress_file' = progress_file
             /\ UNCHANGED files]_vars

(***************************************************************************)
(* C20. Store growth is monotone and bounded: every step leaves the rows   *)
(* already stored in place and unchanged, the count of distinct byte       *)
(* sequences never decreases, and the table never holds more rows than     *)
(* there are byte sequences (256 in the code) and always as many rows as   *)
(* distinct byte sequences.                                                *)
(***************************************************************************)
StoreBounded ==
    /\ Len(db) <= HashSpace
    /\ Len(db) = DistinctCount(db)

StoreGrows ==
    /\ Len(db') >= Len(db)
    /\ SubSeq(db', 1, Len(db)) = db
    /\ DistinctCount(db') >= DistinctCount(db)

C20_StoreMonotoneBounded == []StoreBounded /\ [][StoreGrows]_vars

\* the table is full and the run has offered more units than it holds rows
C20_Witness ==
    /\ Len(db) = HashSpace
    /\ Len(run_log) > HashSpace

====
